---------------------------- MODULE Spec2Model ----------------------------
(***************************************************************************)
(* Rush Hour: the board/car model, move legality, the move enumerator,     *)
(* move-sequence replay and the two solvers (bfs, a_star) of               *)
(* src/src/rushhour/game.py.                                               *)
(*                                                                         *)
(* Strings are sequences of one-character strings: the car string "XH20"   *)
(* is <<"X","H","2","0">> and the move string "X+2" is <<"X","+","2">>.    *)
(* The torch tensor `board` is a sequence of BOARD_SIZE rows of            *)
(* BOARD_SIZE cells (row r, column c of the source is board[r+1][c+1]).    *)
(* The dict `_cars` keeps insertion order, so it is a sequence of Car      *)
(* records with distinct names.                                            *)
(***************************************************************************)
EXTENDS Integers, Sequences, FiniteSets, TLC

VARIABLES
    pc,             \* position of the caller: see the actions below
    initial_state,  \* the car-string list the Game is constructed from
    board,          \* Game.board
    cars,           \* Game._cars
    error,          \* the exception the last operation raised, or "none"
    solver,         \* the solver being run ("none" outside a solve call)
    queue,          \* bfs: deque of (board_tuple, moves_seq, cars)
    visited,        \* bfs: set of board tuples
    heap,           \* a_star: the heap's entries (f, cost, board_tuple, moves_seq, cars)
    g_costs,        \* a_star: the dict board tuple -> best g found so far
    nodes_visited,  \* the solver's pop counter
    result,         \* what each solver returned: "pending", or [moves, nodes]
    last            \* the arguments and the pre-state of the last operation

vars == <<pc, initial_state, board, cars, error, solver, queue, visited, heap,
          g_costs, nodes_visited, result, last>>

-----------------------------------------------------------------------------
(* Program constants                                                       *)

BOARD_SIZE == 6

\* class CarName(IntEnum)
CarName ==
    [X |-> 1, A |-> 2, B |-> 3, C |-> 4, D |-> 5, E |-> 6, F |-> 7, G |-> 8,
     H |-> 9, I |-> 10, J |-> 11, K |-> 12, O |-> 13, P |-> 14, Q |-> 15,
     R |-> 16]

\* CarName(value).name
NameOf(v) == CHOOSE n \in DOMAIN CarName : CarName[n] = v

\* class Orientation(IntEnum)
Orientation == [H |-> 0, V |-> 1]

\* int() of one decimal digit character
DigitValue ==
    [d \in {"0", "1", "2", "3", "4", "5", "6", "7", "8", "9"} |->
        CASE d = "0" -> 0 [] d = "1" -> 1 [] d = "2" -> 2 [] d = "3" -> 3
          [] d = "4" -> 4 [] d = "5" -> 5 [] d = "6" -> 6 [] d = "7" -> 7
          [] d = "8" -> 8 [] d = "9" -> 9]

DigitChar(n) == CHOOSE d \in DOMAIN DigitValue : DigitValue[d] = n

-----------------------------------------------------------------------------
(* class Car                                                               *)

\* Car._size
_size(name) == IF name = CarName.X \/ name < CarName.O THEN 2 ELSE 3

\* Car.__init__: a Car value (size is derived from the name)
Car(name, orientation, start) ==
    [name |-> name, orientation |-> orientation, start |-> start,
     size |-> _size(name)]

\* move_by with the axes exchanged
MoveAcross(car, inc) ==
    IF car.orientation = Orientation.H
    THEN Car(car.name, car.orientation, <<car.start[1] + inc, car.start[2]>>)
    ELSE Car(car.name, car.orientation, <<car.start[1], car.start[2] + inc>>)

\* Car.move_by
move_by(car, inc) ==
    IF car.orientation = Orientation.H
    THEN Car(car.name, car.orientation, <<car.start[1], car.start[2] + inc>>)
    ELSE Car(car.name, car.orientation, <<car.start[1] + inc, car.start[2]>>)

\* Car.end: the last occupied cell
end(car) ==
    IF car.orientation = Orientation.H
    THEN <<car.start[1], car.start[2] + car.size - 1>>
    ELSE <<car.start[1] + car.size - 1, car.start[2]>>

\* Car.in_board
in_board(car) ==
    (car.start[1] >= 0 /\ car.start[2] >= 0)
    /\ (end(car)[1] < BOARD_SIZE /\ end(car)[2] < BOARD_SIZE)

\* the cells of slice(from, to) along a row (fixed row) or a column
RECURSIVE SliceCells(_, _, _, _)
SliceCells(orientation, fixed, from, to) ==
    IF from >= to THEN <<>>
    ELSE <<IF orientation = Orientation.H THEN <<fixed, from>> ELSE <<from, fixed>>>>
         \o SliceCells(orientation, fixed, from + 1, to)

\* Car.indices: the cells (row, col) of the slice, in the slice's order
indices(car) ==
    IF car.orientation = Orientation.H
    THEN SliceCells(car.orientation, car.start[1], car.start[2], end(car)[2] + 1)
    ELSE SliceCells(car.orientation, car.start[2], car.start[1], end(car)[1] + 1)

\* Car.from_string: "<name><H|V><row><col>"
from_string(car_str) ==
    Car(CarName[car_str[1]],
        IF car_str[2] = "H" THEN Orientation.H ELSE Orientation.V,
        <<DigitValue[car_str[3]], DigitValue[car_str[4]]>>)

-----------------------------------------------------------------------------
(* Tensor and dict helpers                                                 *)

\* torch.zeros((board_size, board_size))
ZeroBoard == [r \in 1 .. BOARD_SIZE |-> [c \in 1 .. BOARD_SIZE |-> 0]]

\* self.board[r, c]
At(b, cell) == b[cell[1] + 1][cell[2] + 1]

\* self.board[cells] = v, from the i-th cell of the slice on
RECURSIVE AssignFrom(_, _, _, _)
AssignFrom(b, cells, v, i) ==
    IF i > Len(cells) THEN b
    ELSE AssignFrom([b EXCEPT ![cells[i][1] + 1][cells[i][2] + 1] = v],
                    cells, v, i + 1)

\* self.board[cells] = v
Assign(b, cells, v) == AssignFrom(b, cells, v, 1)

\* torch.all(f(self.board[cells]))
AllCells(cells, f(_)) == \A i \in 1 .. Len(cells) : f(cells[i])

\* car_name in self._cars
InCars(cs, name) == \E i \in 1 .. Len(cs) : cs[i].name = name

\* self._cars[name]
CarOf(cs, name) == cs[CHOOSE i \in 1 .. Len(cs) : cs[i].name = name]

\* self._cars[car.name] = car: a present key keeps its place, a new key is appended
PutCar(cs, car) ==
    IF InCars(cs, car.name)
    THEN [cs EXCEPT ![CHOOSE i \in 1 .. Len(cs) : cs[i].name = car.name] = car]
    ELSE Append(cs, car)

\* tensor.flatten() from row r on: the rows one after the other
RECURSIVE FlattenFrom(_, _)
FlattenFrom(b, r) ==
    IF r > Len(b) THEN <<>> ELSE b[r] \o FlattenFrom(b, r + 1)

\* Game.tensor_to_tuple: row-major flatten
tensor_to_tuple(b) == FlattenFrom(b, 1)

\* reshape from row r on: each run of BOARD_SIZE values is a row
RECURSIVE ReshapeFrom(_, _)
ReshapeFrom(t, r) ==
    IF r > BOARD_SIZE THEN <<>>
    ELSE <<SubSeq(t, (r - 1) * BOARD_SIZE + 1, r * BOARD_SIZE)>>
         \o ReshapeFrom(t, r + 1)

\* torch.tensor(board_tuple).reshape(board_size, board_size)
reshape(t) == ReshapeFrom(t, 1)

-----------------------------------------------------------------------------
(* class Game: placement and construction                                  *)

\* _can_place_car without the test of the cells
InBoardOnly(b, car) == in_board(car)

\* Game._can_place_car
_can_place_car(b, car) ==
    IF ~in_board(car) THEN FALSE
    ELSE LET Empty(cell) == At(b, cell) = 0
         IN  AllCells(indices(car), Empty)

\* Game._place_car
_place_car(b, car) == Assign(b, indices(car), car.name)

\* Game.add_car: the game after the call, error "ValueError" when it raises
add_car(g, car) ==
    IF ~_can_place_car(g.board, car)
    THEN [g EXCEPT !.error = "ValueError"]
    ELSE [g EXCEPT !.cars = PutCar(g.cars, car),
                   !.board = _place_car(g.board, car)]

\* Game.__init__: the loop over initial_state from position i
RECURSIVE InitLoop(_, _, _)
InitLoop(g, state, i) ==
    IF i > Len(state)
    THEN IF ~InCars(g.cars, CarName.X)
         THEN [g EXCEPT !.error = "ValueError"]
         ELSE g
    ELSE LET car == from_string(state[i])
         IN  IF car.name = CarName.X
                /\ (car.orientation # Orientation.H \/ car.start[1] # 2)
             THEN [g EXCEPT !.error = "ValueError"]
             ELSE LET g2 == add_car(g, car)
                  IN  IF g2.error # "none" THEN g2
                      ELSE InitLoop(g2, state, i + 1)

\* Game.__init__
__init__(state) ==
    InitLoop([board |-> ZeroBoard, cars |-> <<>>, error |-> "none"], state, 1)

-----------------------------------------------------------------------------
(* class Game: moves and replay                                            *)

\* Game._can_move_car
_can_move_car(b, car, inc) ==
    LET c == move_by(car, inc)
        Free(cell) == At(b, cell) = 0 \/ At(b, cell) = c.name
    IN  IF ~in_board(c) THEN FALSE
        ELSE AllCells(indices(c), Free)

\* _move_car that leaves the cells the car stood on as they are
MoveNoClear(g, car, inc) ==
    LET c == move_by(car, inc)
        Free(cell) == At(g.board, cell) = 0 \/ At(g.board, cell) = c.name
    IN  IF ~in_board(c)
        THEN [g EXCEPT !.error = "ValueError"]
        ELSE IF AllCells(indices(c), Free)
             THEN [g EXCEPT
                     !.board = Assign(g.board, indices(c), c.name),
                     !.cars = PutCar(g.cars, c)]
             ELSE [g EXCEPT !.error = "ValueError"]

\* _move_car that returns without a change when the destination is taken
MoveSilent(g, car, inc) ==
    LET c == move_by(car, inc)
        Free(cell) == At(g.board, cell) = 0 \/ At(g.board, cell) = c.name
    IN  IF ~in_board(c)
        THEN [g EXCEPT !.error = "ValueError"]
        ELSE IF AllCells(indices(c), Free)
             THEN [g EXCEPT
                     !.board = Assign(Assign(g.board, indices(car), 0),
                                      indices(c), c.name),
                     !.cars = PutCar(g.cars, c)]
             ELSE g

\* _move_car that writes the destination before it clears the old cells
MoveWriteFirst(g, car, inc) ==
    LET c == move_by(car, inc)
        Free(cell) == At(g.board, cell) = 0 \/ At(g.board, cell) = c.name
    IN  IF ~in_board(c)
        THEN [g EXCEPT !.error = "ValueError"]
        ELSE IF AllCells(indices(c), Free)
             THEN [g EXCEPT
                     !.board = Assign(Assign(g.board, indices(c), c.name),
                                      indices(car), 0),
                     !.cars = PutCar(g.cars, c)]
             ELSE [g EXCEPT !.error = "ValueError"]

\* Game._move_car: the game after the call, error "ValueError" when it raises
_move_car(g, car, inc) ==
    LET c == move_by(car, inc)
        Free(cell) == At(g.board, cell) = 0 \/ At(g.board, cell) = c.name
    IN  IF ~in_board(c)
        THEN [g EXCEPT !.error = "ValueError"]
        ELSE IF AllCells(indices(c), Free)
             THEN [g EXCEPT
                     !.board = Assign(Assign(g.board, indices(car), 0),
                                      indices(c), c.name),
                     !.cars = PutCar(g.cars, c)]
             ELSE [g EXCEPT !.error = "ValueError"]

\* int(s) of a digit string read left to right, acc the value so far
RECURSIVE DigitsValue(_, _)
DigitsValue(s, acc) ==
    IF s = <<>> THEN acc
    ELSE DigitsValue(Tail(s), 10 * acc + DigitValue[Head(s)])

\* int(s): an optional sign and at least one digit, ok = FALSE for ValueError
ParseInt(s) ==
    LET body == IF s # <<>> /\ Head(s) \in {"+", "-"} THEN Tail(s) ELSE s
    IN  IF body = <<>> \/ \E i \in 1 .. Len(body) : body[i] \notin DOMAIN DigitValue
        THEN [ok |-> FALSE, value |-> 0]
        ELSE [ok |-> TRUE,
              value |-> IF Head(s) = "-" THEN 0 - DigitsValue(body, 0)
                        ELSE DigitsValue(body, 0)]

\* str(n) for n >= 0
RECURSIVE NatStr(_)
NatStr(n) ==
    IF n < 10 THEN <<DigitChar(n)>>
    ELSE NatStr(n \div 10) \o <<DigitChar(n % 10)>>

\* new_move that writes every increment with a plus sign
PlusMove(car, inc) ==
    <<NameOf(car.name), "+">> \o NatStr(IF inc < 0 THEN 0 - inc ELSE inc)

\* f"{car.name.name}+{inc}" if inc > 0 else f"{car.name.name}{inc}"
new_move(car, inc) ==
    IF inc > 0 THEN <<NameOf(car.name), "+">> \o NatStr(inc)
    ELSE IF inc < 0 THEN <<NameOf(car.name), "-">> \o NatStr(0 - inc)
    ELSE <<NameOf(car.name)>> \o NatStr(0)

\* move_sequence without `if car in self._cars`: the lookup of a car that is
\* not in the game raises
RECURSIVE MoveLoopNoSkip(_, _, _)
MoveLoopNoSkip(g, moves, i) ==
    IF i > Len(moves) THEN g
    ELSE LET move == moves[i]
             inc == ParseInt(Tail(move))
         IN  IF ~inc.ok \/ Head(move) \notin DOMAIN CarName
             THEN [g EXCEPT !.error = "ValueError"]
             ELSE LET car == CarName[Head(move)]
                  IN  IF InCars(g.cars, car)
                      THEN LET g2 == _move_car(g, CarOf(g.cars, car), inc.value)
                           IN  IF g2.error # "none" THEN g2
                               ELSE MoveLoopNoSkip(g2, moves, i + 1)
                      ELSE [g EXCEPT !.error = "KeyError"]

\* Game.move_sequence: the loop over moves from position i
RECURSIVE MoveLoop(_, _, _)
MoveLoop(g, moves, i) ==
    IF i > Len(moves) THEN g
    ELSE LET move == moves[i]
             inc == ParseInt(Tail(move))
         IN  IF ~inc.ok \/ Head(move) \notin DOMAIN CarName
             THEN [g EXCEPT !.error = "ValueError"]
             ELSE LET car == CarName[Head(move)]
                  IN  IF InCars(g.cars, car)
                      THEN LET g2 == _move_car(g, CarOf(g.cars, car), inc.value)
                           IN  IF g2.error # "none" THEN g2
                               ELSE MoveLoop(g2, moves, i + 1)
                      ELSE MoveLoop(g, moves, i + 1)

\* Game.move_sequence
move_sequence(g, moves) == MoveLoop(g, moves, 1)

-----------------------------------------------------------------------------
(* class Game: solved test and move enumeration                            *)

\* Game._obstacles_before_exit
_obstacles_before_exit(g) ==
    LET e == end(CarOf(g.cars, CarName.X))
    IN  Cardinality({c \in e[2] + 1 .. BOARD_SIZE - 1 : At(g.board, <<e[1], c>>) # 0})

\* is_solution that looks only at the cell next to the target
NextCellFree(g) ==
    LET e == end(CarOf(g.cars, CarName.X))
    IN  e[2] + 1 > BOARD_SIZE - 1 \/ At(g.board, <<e[1], e[2] + 1>>) = 0

\* Game.is_solution
is_solution(g) == _obstacles_before_exit(g) = 0

\* no estimate at all
NoEstimate(g) == 0

\* heuristic that weighs every obstacle three times
TripleObstacles(g) == 3 * _obstacles_before_exit(g)

\* Game.heuristic
heuristic(g) == _obstacles_before_exit(g)

\* the tensor as it is, not turned around
NoFlip(t) == t

\* tensor.flip(0)
flip(t) == [i \in 1 .. Len(t) |-> t[Len(t) + 1 - i]]

\* _count_zeros that sums the zeros after position, contiguous or not
CountAllZeros(tensor, position) ==
    IF position >= Len(tensor) \/ tensor[position + 1] # 0 THEN 0
    ELSE Cardinality({i \in position + 1 .. Len(tensor) : tensor[i] = 0})

\* Game._count_zeros: position is 0-based
_count_zeros(tensor, position) ==
    IF position >= Len(tensor) \/ tensor[position + 1] # 0 THEN 0
    ELSE LET zeros == [i \in 1 .. Len(tensor) - position |-> tensor[position + i] = 0]
         IN  IF \A i \in 1 .. Len(zeros) : zeros[i]
             THEN Len(zeros)
             ELSE (CHOOSE i \in 1 .. Len(zeros) :
                     ~zeros[i] /\ \A j \in 1 .. i - 1 : zeros[j]) - 1

\* Game._get_car_moves: <<positive moves, negative moves>>
_get_car_moves(g, car_name) ==
    LET car == CarOf(g.cars, car_name)
    IN  IF car.orientation = Orientation.H
        THEN LET row == g.board[car.start[1] + 1]
             IN  <<_count_zeros(row, end(car)[2] + 1),
                   _count_zeros(flip(row), BOARD_SIZE - car.start[2])>>
        ELSE LET col == [r \in 1 .. BOARD_SIZE |-> g.board[r][car.start[2] + 1]]
             IN  <<_count_zeros(col, end(car)[1] + 1),
                   _count_zeros(flip(col), BOARD_SIZE - car.start[1])>>

\* Game._get_possible_moves: the dict as a sequence of <<car_name, pos, neg>>
\* in the order of self._cars
RECURSIVE PossibleFrom(_, _)
PossibleFrom(g, i) ==
    IF i > Len(g.cars) THEN <<>>
    ELSE LET m == _get_car_moves(g, g.cars[i].name)
         IN  (IF m[1] > 0 \/ m[2] > 0 THEN <<<<g.cars[i].name, m[1], m[2]>>>> ELSE <<>>)
             \o PossibleFrom(g, i + 1)

_get_possible_moves(g) == PossibleFrom(g, 1)

\* the moves of one cell only
UnitMoves(pos_moves, neg_moves) ==
    (IF pos_moves > 0 THEN <<1>> ELSE <<>>)
    \o (IF neg_moves > 0 THEN <<0 - 1>> ELSE <<>>)

\* [p for p in range(1, pos_moves + 1)] + [-n for n in range(1, neg_moves + 1)]
MovesList(pos_moves, neg_moves) ==
    [i \in 1 .. pos_moves + neg_moves |->
        IF i <= pos_moves THEN i ELSE 0 - (i - pos_moves)]

-----------------------------------------------------------------------------
(* Game.bfs: one iteration of `while queue` expands the popped state       *)

\* an entry that keeps the car map as it was before the last move
EntryOldCars(board_tuple, moves_seq, cs) ==
    [board_tuple |-> board_tuple, moves_seq |-> moves_seq,
     cars |-> IF moves_seq = <<>> THEN cs
              ELSE LET move == moves_seq[Len(moves_seq)]
                       car == CarOf(cs, CarName[Head(move)])
                   IN  PutCar(cs, move_by(car, 0 - ParseInt(Tail(move)).value))]

\* the tuples appended to the deque
QueueEntry(board_tuple, moves_seq, cs) ==
    [board_tuple |-> board_tuple, moves_seq |-> moves_seq, cars |-> cs]

\* bfs, `for inc in moves`: st = [g, queue], car is self._cars[car_name] read
\* before the loop; a raising _move_car ends the loop with g.error set
RECURSIVE BfsIncLoop(_, _, _, _, _, _)
BfsIncLoop(st, car_name, car, moves, moves_seq, j) ==
    IF j > Len(moves) THEN st
    ELSE LET inc == moves[j]
             g1 == _move_car(st.g, car, inc)
         IN  IF g1.error # "none" THEN [st EXCEPT !.g = g1]
             ELSE LET q1 == Append(st.queue,
                                   QueueEntry(tensor_to_tuple(g1.board),
                                              Append(moves_seq, new_move(car, inc)),
                                              g1.cars))
                      g2 == _move_car(g1, CarOf(g1.cars, car_name), 0 - inc)
                  IN  IF g2.error # "none" THEN [g |-> g2, queue |-> q1]
                      ELSE BfsIncLoop([g |-> g2, queue |-> q1], car_name, car,
                                      moves, moves_seq, j + 1)

\* bfs, `for car_name in possible_moves`
RECURSIVE BfsCarLoop(_, _, _, _)
BfsCarLoop(st, possible_moves, moves_seq, k) ==
    IF k > Len(possible_moves) THEN st
    ELSE LET car_name == possible_moves[k][1]
             moves == MovesList(possible_moves[k][2], possible_moves[k][3])
             st1 == BfsIncLoop(st, car_name, CarOf(st.g.cars, car_name), moves,
                               moves_seq, 1)
         IN  IF st1.g.error # "none" THEN st1
             ELSE BfsCarLoop(st1, possible_moves, moves_seq, k + 1)

-----------------------------------------------------------------------------
(* Game.a_star: one iteration of `while heap` expands the popped state     *)

\* the tuples pushed on the heap
HeapEntry(f, cost, board_tuple, moves_seq, cs) ==
    [f |-> f, cost |-> cost, board_tuple |-> board_tuple,
     moves_seq |-> moves_seq, cars |-> cs]

\* Python's order on tuples of integers of equal length
RECURSIVE TupleLess(_, _, _)
TupleLess(a, b, i) ==
    IF i > Len(a) THEN FALSE
    ELSE IF a[i] # b[i] THEN a[i] < b[i]
    ELSE TupleLess(a, b, i + 1)

\* the order of entries turned around: the greatest entry first
EntryGreater(a, b) ==
    IF a.f # b.f THEN a.f > b.f
    ELSE IF a.cost # b.cost THEN a.cost > b.cost
    ELSE TupleLess(b.board_tuple, a.board_tuple, 1)

\* an order on entries that looks at f only
EntryByF(a, b) == a.f < b.f

\* the order heapq uses on entries, as far as (f, cost, board_tuple) decide it
EntryLess(a, b) ==
    IF a.f # b.f THEN a.f < b.f
    ELSE IF a.cost # b.cost THEN a.cost < b.cost
    ELSE TupleLess(a.board_tuple, b.board_tuple, 1)

\* the entries heapq.heappop may return: none is greater than another entry
HeapMin(h) == {e \in h : \A o \in h : ~EntryLess(o, e)}

\* a push that also takes a cost equal to the recorded one
ImprovesOrEqual(gc, key, new_cost) == key \notin DOMAIN gc \/ new_cost <= gc[key]

\* new_cost < g_costs.get(new_board_tuple, float('inf'))
Improves(gc, key, new_cost) == key \notin DOMAIN gc \/ new_cost < gc[key]

\* a pop that is never taken for stale
NeverStale(gc, key, cost) == FALSE

\* cost > g_costs.get(board_tuple, float('inf'))
Stale(gc, key, cost) == key \in DOMAIN gc /\ cost > gc[key]

\* g_costs[key] = cost
SetCost(gc, key, cost) ==
    IF key \in DOMAIN gc THEN [gc EXCEPT ![key] = cost]
    ELSE gc @@ (key :> cost)

\* a_star, `for inc in moves`: st = [g, heap, g_costs]
RECURSIVE AStarIncLoop(_, _, _, _, _, _, _)
AStarIncLoop(st, car_name, car, moves, moves_seq, cost, j) ==
    IF j > Len(moves) THEN st
    ELSE LET inc == moves[j]
             g1 == _move_car(st.g, car, inc)
         IN  IF g1.error # "none" THEN [st EXCEPT !.g = g1]
             ELSE LET new_cost == cost + 1
                      new_board_tuple == tensor_to_tuple(g1.board)
                      push == Improves(st.g_costs, new_board_tuple, new_cost)
                      gc1 == IF push
                             THEN SetCost(st.g_costs, new_board_tuple, new_cost)
                             ELSE st.g_costs
                      h1 == IF push
                            THEN st.heap \cup
                                 {HeapEntry(new_cost + heuristic(g1), new_cost,
                                            new_board_tuple,
                                            Append(moves_seq, new_move(car, inc)),
                                            g1.cars)}
                            ELSE st.heap
                      g2 == _move_car(g1, CarOf(g1.cars, car_name), 0 - inc)
                      st2 == [g |-> g2, heap |-> h1, g_costs |-> gc1]
                  IN  IF g2.error # "none" THEN st2
                      ELSE AStarIncLoop(st2, car_name, car, moves, moves_seq,
                                        cost, j + 1)

\* a_star, `for car_name in possible_moves`
RECURSIVE AStarCarLoop(_, _, _, _, _)
AStarCarLoop(st, possible_moves, moves_seq, cost, k) ==
    IF k > Len(possible_moves) THEN st
    ELSE LET car_name == possible_moves[k][1]
             moves == MovesList(possible_moves[k][2], possible_moves[k][3])
             st1 == AStarIncLoop(st, car_name, CarOf(st.g.cars, car_name), moves,
                                 moves_seq, cost, 1)
         IN  IF st1.g.error # "none" THEN st1
             ELSE AStarCarLoop(st1, possible_moves, moves_seq, cost, k + 1)

-----------------------------------------------------------------------------
(* Inputs                                                                  *)

\* longest initial car list
MaxCars == 3
\* longest move list given to move_sequence
MaxMoves == 2

\* the car strings the initial lists are drawn from: sound placements of the
\* target, blockers of its row and blockers of the blockers, and placements
\* with a defect (vertical target, target off row 2, past the board edge)
CarStrings ==
    { <<"X", "H", "2", "0">>, <<"X", "H", "2", "1">>, <<"X", "V", "2", "0">>,
      <<"X", "H", "3", "0">>, <<"X", "H", "2", "5">>,
      <<"A", "V", "1", "2">>, <<"A", "V", "3", "2">>, <<"A", "H", "2", "4">>,
      <<"A", "V", "5", "3">>,
      <<"B", "H", "4", "3">>, <<"B", "H", "3", "4">>, <<"B", "V", "0", "5">>,
      <<"O", "V", "0", "4">>, <<"O", "V", "1", "4">>, <<"O", "V", "3", "5">>,
      <<"O", "H", "0", "4">> }

\* all car lists of length at most n
RECURSIVE ListsUpTo(_)
ListsUpTo(n) ==
    IF n = 0 THEN {<<>>}
    ELSE LET shorter == ListsUpTo(n - 1)
         IN  shorter \cup
             {Append(l, c) : l \in {x \in shorter : Len(x) = n - 1}, c \in CarStrings}

CarLists == ListsUpTo(MaxCars)

\* the names of a car list are distinct
DistinctNames(state) ==
    \A i, j \in 1 .. Len(state) : i # j => state[i][1] # state[j][1]

\* names in the order of the enumeration
Ascending(state) ==
    \A i \in 1 .. Len(state) - 1 : CarName[state[i][1]] < CarName[state[i + 1][1]]

\* a list of five cars in which a_star reaches a state by a longer path
\* before a shorter one, so that its heap holds two entries of one state
Crowded ==
    << <<"X", "H", "2", "1">>, <<"A", "H", "2", "4">>, <<"B", "V", "3", "2">>,
       <<"O", "H", "4", "3">>, <<"P", "V", "0", "3">> >>

\* the lists of distinct cars, in the enumeration's order, that construct
ValidConfigs ==
    {l \in CarLists \cup {Crowded} : Ascending(l) /\ __init__(l).error = "none"}

\* the move strings the replayed lists are drawn from: slides, a jump over
\* a car (X+3 from column 0 over column 2), moves onto a car and off the
\* board, the docstring's unsigned form, a name of the enumeration that no
\* list places (C) and a name outside the enumeration (Z)
MoveStrings ==
    { <<"X", "+", "1">>, <<"X", "-", "1">>, <<"X", "+", "3">>, <<"X", "2">>,
      <<"O", "+", "3">>, <<"C", "+", "1">>, <<"Z", "+", "1">> }

RECURSIVE MoveListsUpTo(_)
MoveListsUpTo(n) ==
    IF n = 0 THEN {<<>>}
    ELSE LET shorter == MoveListsUpTo(n - 1)
         IN  shorter \cup
             {Append(l, m) : l \in {x \in shorter : Len(x) = n - 1}, m \in MoveStrings}

MoveLists == MoveListsUpTo(MaxMoves)

-----------------------------------------------------------------------------
(* State                                                                   *)

Pending == [state |-> "pending", found |-> FALSE, moves |-> <<>>, nodes |-> 0]

\* a return of the count as it was before the last pop
ReturnedBeforePop(found, moves, nodes) ==
    [state |-> "returned", found |-> found, moves |-> moves, nodes |-> nodes - 1]

\* what a solver returns: (moves_seq, nodes_visited) or (None, nodes_visited)
Returned(found, moves, nodes) ==
    [state |-> "returned", found |-> found, moves |-> moves, nodes |-> nodes]

NoCall == [op |-> "none", moves |-> <<>>, board |-> ZeroBoard, cars |-> <<>>]

\* the working Game as a record
Game == [board |-> board, cars |-> cars, error |-> "none"]

NoSearch ==
    /\ solver = "none"
    /\ queue = <<>>
    /\ visited = {}
    /\ heap = {}
    /\ g_costs = <<>>
    /\ nodes_visited = 0

\* the state after Game(initial_state) for a list that constructs
Init ==
    /\ initial_state \in ValidConfigs
    /\ board = __init__(initial_state).board
    /\ cars = __init__(initial_state).cars
    /\ error = "none"
    /\ pc = "idle"
    /\ NoSearch
    /\ result = [bfs |-> Pending, a_star |-> Pending]
    /\ last = NoCall

\* before Game(initial_state), for any list
InitNew ==
    /\ initial_state \in CarLists
    /\ board = ZeroBoard
    /\ cars = <<>>
    /\ error = "none"
    /\ pc = "new"
    /\ NoSearch
    /\ result = [bfs |-> Pending, a_star |-> Pending]
    /\ last = NoCall

-----------------------------------------------------------------------------
(* Actions                                                                 *)

\* Game(initial_state): Game.__init__; a raise leaves no Game.  The caller
\* constructs a fresh Game for the solver that has not run yet.
New ==
    /\ pc \in {"new", "done"}
    /\ result.a_star.state = "pending"
    /\ LET g == __init__(initial_state)
       IN  IF g.error = "none"
           THEN /\ pc' = "idle"
                /\ board' = g.board
                /\ cars' = g.cars
                /\ error' = "none"
           ELSE /\ pc' = "failed"
                /\ board' = ZeroBoard
                /\ cars' = <<>>
                /\ error' = g.error
    /\ UNCHANGED <<initial_state, solver, queue, visited, heap, g_costs,
                   nodes_visited, result, last>>

\* g.move_sequence(moves), on a fresh Game or on the Game bfs returned from
MoveSequence ==
    /\ \/ pc = "idle" /\ result.bfs.state = "pending"
       \/ pc = "done" /\ result.a_star.state = "pending"
    /\ pc' = "replayed"
    /\ \E moves \in MoveLists :
         LET g == move_sequence(Game, moves)
         IN  /\ board' = g.board
             /\ cars' = g.cars
             /\ error' = g.error
             /\ last' = [op |-> "move_sequence", moves |-> moves,
                         board |-> board, cars |-> cars]
    /\ UNCHANGED <<initial_state, solver, queue, visited, heap, g_costs,
                   nodes_visited, result>>

\* g.solve("bfs"): bfs up to its loop
BfsStart ==
    /\ pc = "idle"
    /\ result.bfs.state = "pending"
    /\ solver' = "bfs"
    /\ pc' = "bfs"
    /\ visited' = {}
    /\ queue' = <<QueueEntry(tensor_to_tuple(board), <<>>, cars)>>
    /\ nodes_visited' = 0
    /\ UNCHANGED <<initial_state, board, cars, error, heap, g_costs, result, last>>

\* bfs: `while queue` is false
BfsExhausted ==
    /\ pc = "bfs"
    /\ queue = <<>>
    /\ pc' = "done"
    /\ result' = [result EXCEPT !.bfs = Returned(FALSE, <<>>, nodes_visited)]
    /\ solver' = "none"
    /\ visited' = {}
    /\ nodes_visited' = 0
    /\ UNCHANGED <<initial_state, board, cars, error, queue, heap, g_costs, last>>

\* bfs: one iteration of `while queue`
BfsStep ==
    /\ pc = "bfs"
    /\ queue # <<>>
    /\ LET entry == Head(queue)
           g == [board |-> reshape(entry.board_tuple), cars |-> entry.cars,
                 error |-> "none"]
           state_tuple == tensor_to_tuple(g.board)
       IN  IF is_solution(g)
           THEN /\ pc' = "done"
                /\ result' = [result EXCEPT
                                !.bfs = Returned(TRUE, entry.moves_seq,
                                                 nodes_visited + 1)]
                /\ board' = g.board
                /\ cars' = g.cars
                /\ solver' = "none"
                /\ queue' = <<>>
                /\ visited' = {}
                /\ nodes_visited' = 0
                /\ error' = error
           ELSE IF state_tuple \in visited
           THEN /\ queue' = Tail(queue)
                /\ board' = g.board
                /\ cars' = g.cars
                /\ nodes_visited' = nodes_visited + 1
                /\ UNCHANGED <<pc, result, solver, visited, error>>
           ELSE LET st == BfsCarLoop([g |-> g, queue |-> Tail(queue)],
                                     _get_possible_moves(g), entry.moves_seq, 1)
                IN  /\ board' = st.g.board
                    /\ cars' = st.g.cars
                    /\ error' = st.g.error
                    /\ nodes_visited' = nodes_visited + 1
                    /\ visited' = visited \cup {state_tuple}
                    /\ queue' = st.queue
                    /\ pc' = IF st.g.error = "none" THEN "bfs" ELSE "raised"
                    /\ UNCHANGED <<result, solver>>
    /\ UNCHANGED <<initial_state, heap, g_costs, last>>

\* g.solve("a_star"): a_star up to its loop
AStarStart ==
    /\ pc = "idle"
    /\ result.bfs.state = "returned"
    /\ result.a_star.state = "pending"
    /\ solver' = "a_star"
    /\ pc' = "a_star"
    /\ g_costs' = SetCost(<<>>, tensor_to_tuple(board), 0)
    /\ heap' = {HeapEntry(heuristic(Game), 0, tensor_to_tuple(board), <<>>, cars)}
    /\ nodes_visited' = 0
    /\ UNCHANGED <<initial_state, board, cars, error, queue, visited, result, last>>

\* a_star: `while heap` is false
AStarExhausted ==
    /\ pc = "a_star"
    /\ heap = {}
    /\ pc' = "done"
    /\ result' = [result EXCEPT !.a_star = Returned(FALSE, <<>>, nodes_visited)]
    /\ solver' = "none"
    /\ g_costs' = <<>>
    /\ nodes_visited' = 0
    /\ UNCHANGED <<initial_state, board, cars, error, queue, visited, heap, last>>

\* a_star: one iteration of `while heap`
AStarStep ==
    /\ pc = "a_star"
    /\ heap # {}
    /\ \E entry \in HeapMin(heap) :
         LET g == [board |-> reshape(entry.board_tuple), cars |-> entry.cars,
                   error |-> "none"]
         IN  IF Stale(g_costs, entry.board_tuple, entry.cost)
             THEN /\ heap' = heap \ {entry}
                  /\ nodes_visited' = nodes_visited + 1
                  /\ UNCHANGED <<pc, result, solver, g_costs, board, cars, error>>
             ELSE IF is_solution(g)
             THEN /\ pc' = "done"
                  /\ result' = [result EXCEPT
                                  !.a_star = Returned(TRUE, entry.moves_seq,
                                                      nodes_visited + 1)]
                  /\ board' = g.board
                  /\ cars' = g.cars
                  /\ solver' = "none"
                  /\ heap' = {}
                  /\ g_costs' = <<>>
                  /\ nodes_visited' = 0
                  /\ error' = error
             ELSE LET st == AStarCarLoop([g |-> g, heap |-> heap \ {entry},
                                          g_costs |-> g_costs],
                                         _get_possible_moves(g), entry.moves_seq,
                                         entry.cost, 1)
                  IN  /\ board' = st.g.board
                      /\ cars' = st.g.cars
                      /\ error' = st.g.error
                      /\ nodes_visited' = nodes_visited + 1
                      /\ heap' = st.heap
                      /\ g_costs' = st.g_costs
                      /\ pc' = IF st.g.error = "none" THEN "a_star" ELSE "raised"
                      /\ UNCHANGED <<result, solver>>
    /\ UNCHANGED <<initial_state, queue, visited, last>>

\* both solvers have returned: the caller keeps the results and solves the
\* same list a second time, on a fresh Game
SolveAgain ==
    /\ pc = "done"
    /\ result.a_star.state = "returned"
    /\ last.op = "none"
    /\ last' = [op |-> "solved", bfs |-> result.bfs, a_star |-> result.a_star]
    /\ result' = [bfs |-> Pending, a_star |-> Pending]
    /\ LET g == __init__(initial_state)
       IN  /\ board' = g.board
           /\ cars' = g.cars
           /\ error' = g.error
    /\ pc' = "idle"
    /\ UNCHANGED <<initial_state, solver, queue, visited, heap, g_costs,
                   nodes_visited>>

Next ==
    \/ New
    \/ BfsStart
    \/ BfsStep
    \/ BfsExhausted
    \/ AStarStart
    \/ AStarStep
    \/ AStarExhausted

Spec == Init /\ [][Next]_vars

NextNew == New

SpecNew == InitNew /\ [][NextNew]_vars

NextTwice == Next \/ SolveAgain

SpecTwice == Init /\ [][NextTwice]_vars

NextReplay == Next \/ MoveSequence

SpecReplay == Init /\ [][NextReplay]_vars

-----------------------------------------------------------------------------
(* The puzzle as the specification words it: cars slide along their axis   *)
(* through empty cells, and the puzzle is solved when no car stands in the *)
(* target's row to the right of the target.  These definitions read only   *)
(* the cars, never the grid.                                               *)

\* the cells of a car anchored at start
CellsAt(car, start) ==
    IF car.orientation = Orientation.H
    THEN {<<start[1], start[2] + k>> : k \in 0 .. car.size - 1}
    ELSE {<<start[1] + k, start[2]>> : k \in 0 .. car.size - 1}

CellsOf(car) == CellsAt(car, car.start)

OnBoard(cells) ==
    \A cell \in cells :
        cell[1] \in 0 .. BOARD_SIZE - 1 /\ cell[2] \in 0 .. BOARD_SIZE - 1

\* the anchor of a car after a shift of d cells along its axis
Shifted(car, d) ==
    IF car.orientation = Orientation.H
    THEN <<car.start[1], car.start[2] + d>>
    ELSE <<car.start[1] + d, car.start[2]>>

\* the cells of the cars of cs other than the i-th
OtherCells(cs, i) == UNION {CellsOf(cs[j]) : j \in (1 .. Len(cs)) \ {i}}

Abs(d) == IF d < 0 THEN 0 - d ELSE d

Sign(d) == IF d < 0 THEN 0 - 1 ELSE 1

\* the destination of the i-th car shifted by d is on the board and free of
\* other cars
LegalDest(cs, i, d) ==
    LET dest == CellsAt(cs[i], Shifted(cs[i], d))
    IN  OnBoard(dest) /\ dest \cap OtherCells(cs, i) = {}

\* a slide: every position on the way to the destination is legal
CanSlide(cs, i, d) ==
    d # 0 /\ \A k \in 1 .. Abs(d) : LegalDest(cs, i, Sign(d) * k)

Increments == (0 - (BOARD_SIZE - 1)) .. (BOARD_SIZE - 1)

\* the configurations one slide away
Slides(cs) ==
    {[cs EXCEPT ![p[1]].start = Shifted(cs[p[1]], p[2])] :
        p \in {q \in (1 .. Len(cs)) \X Increments : CanSlide(cs, q[1], q[2])}}

\* no car stands in the target's row to the right of the target
Solved(cs) ==
    LET x == CarOf(cs, CarName.X)
    IN  \A j \in 1 .. Len(cs) :
            \A cell \in CellsOf(cs[j]) :
                ~(cell[1] = x.start[1] /\ cell[2] > x.start[2] + x.size - 1)

\* breadth-first levels of the slide graph: the least number of slides from
\* a configuration of the frontier to a solved one, -1 when there is none
RECURSIVE MinSlidesFrom(_, _, _)
MinSlidesFrom(frontier, seen, depth) ==
    IF frontier = {} THEN 0 - 1
    ELSE IF \E cs \in frontier : Solved(cs) THEN depth
    ELSE LET known == seen \cup frontier
         IN  MinSlidesFrom((UNION {Slides(cs) : cs \in frontier}) \ known,
                           known, depth + 1)

MinSlides(cs) == MinSlidesFrom({cs}, {}, 0)

\* the cars of the initial list
InitialCars == [i \in 1 .. Len(initial_state) |-> from_string(initial_state[i])]

\* bfs has just returned / a_star has just returned
BfsDone == pc = "done" /\ result.a_star.state = "pending"

AStarDone == pc = "done" /\ result.a_star.state = "returned"

-----------------------------------------------------------------------------
(* Claims                                                                  *)

\* C1: for a solvable initial configuration bfs returns a move sequence whose
\* length is the least number of slides to a solved configuration.
C1_BfsShortest ==
    BfsDone =>
        LET d == MinSlides(InitialCars)
        IN  d >= 0 => result.bfs.found /\ Len(result.bfs.moves) = d

\* C1 witness: bfs returned a solution of two moves, the least possible
C1_Witness ==
    /\ BfsDone
    /\ result.bfs.found
    /\ Len(result.bfs.moves) = 2
    /\ MinSlides(InitialCars) = 2

\* the Game a returned move sequence leads to, replayed on a fresh Game
Replayed(moves) == move_sequence(__init__(initial_state), moves)

\* C2: a move sequence returned by bfs or a_star replays on a fresh Game of the
\* same list without an error and ends in a solved state.
C2_ReplaySolves ==
    /\ BfsDone /\ result.bfs.found =>
          LET g == Replayed(result.bfs.moves)
          IN  g.error = "none" /\ is_solution(g) /\ Solved(g.cars)
    /\ AStarDone /\ result.a_star.found =>
          LET g == Replayed(result.a_star.moves)
          IN  g.error = "none" /\ is_solution(g) /\ Solved(g.cars)

\* C2 witness: a_star returned a sequence with a move to the left or up
C2_Witness ==
    /\ AStarDone
    /\ result.a_star.found
    /\ \E i \in 1 .. Len(result.a_star.moves) : result.a_star.moves[i][2] = "-"
    /\ Replayed(result.a_star.moves).error = "none"

\* C3: when both solvers return a move sequence, the two have the same length.
C3_SameLength ==
    AStarDone /\ result.bfs.found /\ result.a_star.found =>
        Len(result.a_star.moves) = Len(result.bfs.moves)

\* C3 witness: both returned two moves
C3_Witness ==
    /\ AStarDone
    /\ result.bfs.found
    /\ result.a_star.found
    /\ Len(result.a_star.moves) = 2
    /\ Len(result.bfs.moves) = 2

\* the number of placements of the cars along their axes, from the i-th car on
RECURSIVE Placements(_, _)
Placements(cs, i) ==
    IF i > Len(cs) THEN 1
    ELSE (BOARD_SIZE - cs[i].size + 1) * Placements(cs, i + 1)

\* the most slides any configuration of the cars offers, from the i-th car on
RECURSIVE MaxDegree(_, _)
MaxDegree(cs, i) ==
    IF i > Len(cs) THEN 0
    ELSE (BOARD_SIZE - cs[i].size) + MaxDegree(cs, i + 1)

\* a bound on the pops of either search: the first entry, and for each
\* configuration at most one entry per slide into it (bfs) or per value of g
\* below the number of configurations (a_star)
PopBound(cs) ==
    1 + Placements(cs, 1) * (Placements(cs, 1) + MaxDegree(cs, 1))

\* an iteration that stays in the loop has popped one entry
PopsOnce ==
    pc \in {"bfs", "a_star"} /\ pc' = pc => nodes_visited' = nodes_visited + 1

\* C4: on a configuration with no solved state in reach both solvers return
\* (None, nodes_visited) with nodes_visited > 0, after finitely many pops:
\* every iteration pops once and the pops never exceed PopBound.
C4_NoSolution ==
    /\ [](pc = "done" /\ MinSlides(InitialCars) < 0 =>
            /\ ~result.bfs.found /\ result.bfs.nodes > 0
            /\ result.a_star.state = "returned" =>
                 ~result.a_star.found /\ result.a_star.nodes > 0)
    /\ [](pc \in {"bfs", "a_star"} => nodes_visited <= PopBound(cars))
    /\ [](pc # "raised")
    /\ [][PopsOnce]_vars

\* C4 witness: both solvers returned None on a list with a car across the exit
C4_Witness ==
    /\ AStarDone
    /\ ~result.bfs.found
    /\ ~result.a_star.found
    /\ result.bfs.nodes > 1
    /\ result.a_star.nodes > 1
    /\ MinSlides(InitialCars) < 0

\* the move names a car that is not in the car map cs
Absent(move, cs) ==
    Head(move) \notin DOMAIN CarName \/ ~InCars(cs, CarName[Head(move)])

\* move_sequence has run on a list of moves that all name absent cars
ReplayedAbsent ==
    /\ pc = "replayed"
    /\ last.moves # <<>>
    /\ \A i \in 1 .. Len(last.moves) : Absent(last.moves[i], last.cars)

\* the grid and the car map are as they were before the call
Untouched == board = last.board /\ cars = last.cars

\* C5 as stated: a move whose car is not in the state, a name of the
\* enumeration or not, is skipped without an error and without a change.
C5_AbsentSkipped ==
    ReplayedAbsent => error = "none" /\ Untouched

\* C5 amended: a move naming a car of the enumeration that is not placed is
\* skipped without an error and without a change; a move whose name is not in
\* the enumeration raises ValueError, the grid and the car map left unchanged.
C5_UnplacedSkipped ==
    ReplayedAbsent =>
        /\ Untouched
        /\ error = IF \A i \in 1 .. Len(last.moves) :
                          Head(last.moves[i]) \in DOMAIN CarName
                   THEN "none" ELSE "ValueError"

\* C5 witness: a list of two moves of a car that is not placed was skipped
C5_Witness ==
    /\ ReplayedAbsent
    /\ Len(last.moves) = 2
    /\ \A i \in 1 .. Len(last.moves) : Head(last.moves[i]) \in DOMAIN CarName
    /\ error = "none"
    /\ Untouched

\* C6 as stated: a list that names a car twice does not construct.
C6_DuplicateFails ==
    pc # "new" /\ ~DistinctNames(initial_state) => pc = "failed"

\* the defects of a car list, read from the cars' cells in list order
Defective(state) ==
    LET cs == [i \in 1 .. Len(state) |-> from_string(state[i])]
    IN  \/ \A i \in 1 .. Len(cs) : cs[i].name # CarName.X
        \/ \E i \in 1 .. Len(cs) :
              /\ cs[i].name = CarName.X
              /\ cs[i].orientation = Orientation.V \/ cs[i].start[1] # 2
        \/ \E i \in 1 .. Len(cs) : ~OnBoard(CellsOf(cs[i]))
        \/ \E i \in 1 .. Len(cs) : \E j \in 1 .. i - 1 :
              CellsOf(cs[i]) \cap CellsOf(cs[j]) # {}

\* C7: construction raises when the target is absent, vertical or off row 2,
\* or a car runs past the edge or covers a cell of an earlier car; a list of
\* distinct cars without such a defect constructs, with its cars in the map.
C7_Construction ==
    pc # "new" =>
        /\ Defective(initial_state) => pc = "failed" /\ error = "ValueError"
        /\ DistinctNames(initial_state) /\ ~Defective(initial_state) =>
              pc = "idle" /\ error = "none" /\ cars = InitialCars

\* C7 witness: a list of three cars whose last car covers a cell of an earlier
\* one did not construct
C7_Witness ==
    /\ pc = "failed"
    /\ Len(initial_state) = 3
    /\ DistinctNames(initial_state)
    /\ ~Defective(SubSeq(initial_state, 1, 2))
    /\ OnBoard(CellsOf(InitialCars[3]))
    /\ InitialCars[3].name # CarName.X

\* the grid and the car map agree
Consistent(b, cs) ==
    /\ \A i, j \in 1 .. Len(cs) : i # j =>
          cs[i].name # cs[j].name /\ CellsOf(cs[i]) \cap CellsOf(cs[j]) = {}
    /\ \A i \in 1 .. Len(cs) :
          /\ cs[i].size = _size(cs[i].name)
          /\ OnBoard(CellsOf(cs[i]))
          /\ \A cell \in CellsOf(cs[i]) : At(b, cell) = cs[i].name
    /\ \A r, c \in 0 .. BOARD_SIZE - 1 :
          At(b, <<r, c>>) # 0 =>
              \E i \in 1 .. Len(cs) :
                  cs[i].name = At(b, <<r, c>>) /\ <<r, c>> \in CellsOf(cs[i])

\* C8: after construction from distinct cars, and after any call of
\* move_sequence, bfs or a_star, every nonzero cell holds the name of the one
\* car standing on it, every cell of a car holds its name, and no two cars
\* share a cell.
C8_GridMatchesCars == Consistent(board, cars)

\* C8 witness: a failing move_sequence moved a car before it raised, on the
\* Game a solver had returned from
C8_Witness ==
    /\ pc = "replayed"
    /\ result.bfs.state = "returned"
    /\ error = "ValueError"
    /\ cars # last.cars
    /\ Consistent(board, cars)

\* the grid that shows the cars of cs
Paint(cs) ==
    [r \in 1 .. BOARD_SIZE |->
        [c \in 1 .. BOARD_SIZE |->
            IF \E i \in 1 .. Len(cs) : <<r - 1, c - 1>> \in CellsOf(cs[i])
            THEN cs[CHOOSE i \in 1 .. Len(cs) : <<r - 1, c - 1>> \in CellsOf(cs[i])].name
            ELSE 0]]

\* replay by the rules: the cars after the moves before the first one that
\* is not a legal destination (or names no car of the enumeration)
RECURSIVE RuleReplay(_, _, _)
RuleReplay(cs, moves, i) ==
    IF i > Len(moves) THEN [cars |-> cs, raised |-> FALSE]
    ELSE LET name == Head(moves[i])
             d == ParseInt(Tail(moves[i])).value
         IN  IF name \notin DOMAIN CarName THEN [cars |-> cs, raised |-> TRUE]
             ELSE IF ~InCars(cs, CarName[name]) THEN RuleReplay(cs, moves, i + 1)
             ELSE LET k == CHOOSE k \in 1 .. Len(cs) : cs[k].name = CarName[name]
                  IN  IF LegalDest(cs, k, d)
                      THEN RuleReplay([cs EXCEPT ![k].start = Shifted(cs[k], d)],
                                      moves, i + 1)
                      ELSE [cars |-> cs, raised |-> TRUE]

\* C9: a move whose destination is partly off the board or covers a cell of
\* another car raises ValueError and changes neither the grid nor the car
\* map; move_sequence stops at such a move with the error, the state being
\* the one the moves before it led to.
C9_IllegalMoveRaises ==
    /\ \A i \in 1 .. Len(cars) : \A d \in Increments :
          ~LegalDest(cars, i, d) =>
              _move_car(Game, cars[i], d) = [Game EXCEPT !.error = "ValueError"]
    /\ pc = "replayed" =>
          LET r == RuleReplay(last.cars, last.moves, 1)
          IN  /\ error = IF r.raised THEN "ValueError" ELSE "none"
              /\ cars = r.cars
              /\ board = Paint(r.cars)

\* C9 witness: move_sequence raised at its second move, a move of a car of the
\* game onto another car or off the board, after the first had moved a car
C9_Witness ==
    /\ pc = "replayed"
    /\ Len(last.moves) = 2
    /\ error = "ValueError"
    /\ cars # last.cars
    /\ ~Absent(last.moves[2], cars)

\* C10: in every reachable state, for every car and every increment d that
\* _move_car accepts, moving by d and then by -d succeeds and gives back the
\* grid and the car map.
C10_MoveBack ==
    \A i \in 1 .. Len(cars) : \A d \in Increments :
        LET g1 == _move_car(Game, cars[i], d)
        IN  g1.error = "none" =>
                _move_car(g1, CarOf(g1.cars, cars[i].name), 0 - d) = Game

\* C10 witness: move_sequence moved the target one cell right and back
C10_Witness ==
    /\ pc = "replayed"
    /\ last.moves = << <<"X", "+", "1">>, <<"X", "-", "1">> >>
    /\ error = "none"
    /\ Untouched

\* C11: in a run of bfs or a_star from a valid configuration no _move_car
\* raises, neither a move of the enumerator's ranges nor the move back, so no
\* iteration ends in an exception and the Game carries no error.
C11_SearchNeverRaises ==
    /\ pc # "raised"
    /\ pc \in {"bfs", "a_star", "done"} => error = "none"

\* C11 witness: bfs has expanded a state, taking moves in both directions
\* and moving each car back
C11_Witness ==
    /\ pc = "bfs"
    /\ nodes_visited >= 1
    /\ \E i, j \in 1 .. Len(queue) :
          /\ queue[i].moves_seq # <<>> /\ queue[j].moves_seq # <<>>
          /\ queue[i].moves_seq[Len(queue[i].moves_seq)][2] = "+"
          /\ queue[j].moves_seq[Len(queue[j].moves_seq)][2] = "-"
    /\ error = "none"

\* the entry a step of a_star popped: it left the heap and all others stayed
Popped(e) ==
    /\ e \in heap
    /\ e \notin heap'
    /\ heap \ {e} \subseteq heap'
    /\ \A o \in heap : ~EntryLess(o, e)

\* one step of bfs or a_star, pop by pop
PopStep ==
    /\ pc = "idle" /\ pc' \in {"bfs", "a_star"} => nodes_visited' = 0
    /\ pc = "bfs" /\ pc' = "bfs" =>
          /\ queue # <<>>
          /\ ~Solved(Head(queue).cars)
          /\ nodes_visited' = nodes_visited + 1
          /\ SubSeq(queue', 1, Len(queue) - 1) = Tail(queue)
          /\ Head(queue).board_tuple \in visited => queue' = Tail(queue)
    /\ pc = "bfs" /\ pc' = "done" =>
          IF queue = <<>>
          THEN result'.bfs = [state |-> "returned", found |-> FALSE,
                              moves |-> <<>>, nodes |-> nodes_visited]
          ELSE /\ Solved(Head(queue).cars)
               /\ result'.bfs = [state |-> "returned", found |-> TRUE,
                                 moves |-> Head(queue).moves_seq,
                                 nodes |-> nodes_visited + 1]
    /\ pc = "a_star" /\ pc' = "a_star" =>
          /\ nodes_visited' = nodes_visited + 1
          /\ \E e \in heap :
                /\ Popped(e)
                /\ ~Solved(e.cars)
                /\ e.cost > g_costs[e.board_tuple] => heap' = heap \ {e}
    /\ pc = "a_star" /\ pc' = "done" =>
          IF heap = {}
          THEN result'.a_star = [state |-> "returned", found |-> FALSE,
                                 moves |-> <<>>, nodes |-> nodes_visited]
          ELSE \E e \in heap :
                  /\ \A o \in heap : ~EntryLess(o, e)
                  /\ Solved(e.cars)
                  /\ result'.a_star = [state |-> "returned", found |-> TRUE,
                                       moves |-> e.moves_seq,
                                       nodes |-> nodes_visited + 1]

\* C12: the count starts at 0, every iteration pops one entry and adds one,
\* discarded pops included, the search returns at the first popped entry that
\* is solved with the count of the pops so far, and an initially solved
\* configuration gives the empty sequence and the count 1 from both solvers.
C12_NodesArePops ==
    /\ [][PopStep]_vars
    /\ [](pc = "done" /\ Solved(InitialCars) =>
            /\ result.bfs = [state |-> "returned", found |-> TRUE,
                             moves |-> <<>>, nodes |-> 1]
            /\ result.a_star.state = "returned" =>
                  result.a_star = [state |-> "returned", found |-> TRUE,
                                   moves |-> <<>>, nodes |-> 1])

\* C12 witness: a_star returned a sequence of two moves at its fourth pop or
\* later, after bfs had returned one
C12_Witness ==
    /\ AStarDone
    /\ result.bfs.found /\ result.bfs.nodes > 3
    /\ result.a_star.found /\ result.a_star.nodes > 3
    /\ Len(result.a_star.moves) = 2

\* C13: a second solve of the same list with the same algorithm, on a fresh
\* Game, returns the move sequence and the node count of the first; the one
\* choice a run has, the entry heappop returns, is decided by the order of the
\* entries at every pop.
C13_SameResultTwice ==
    /\ last.op = "solved" =>
          /\ result.bfs.state = "returned" => result.bfs = last.bfs
          /\ result.a_star.state = "returned" => result.a_star = last.a_star
    /\ pc = "a_star" /\ heap # {} => Cardinality(HeapMin(heap)) = 1

\* C13 witness: both solvers returned a second time, with moves
C13_Witness ==
    /\ last.op = "solved"
    /\ AStarDone
    /\ result.bfs.found /\ result.bfs.moves # <<>>
    /\ result.a_star.found /\ result.a_star.moves # <<>>
    /\ result.a_star.nodes > 2

\* the cells of all the cars of cs
AllCarCells(cs) == UNION {CellsOf(cs[j]) : j \in 1 .. Len(cs)}

\* the cell k steps after the last cell of the car (k > 0) or k steps before
\* its anchor (k < 0), along its axis
Beyond(car, k) ==
    LET far == IF k > 0 THEN car.size - 1 + k ELSE k
    IN  IF car.orientation = Orientation.H
        THEN <<car.start[1], car.start[2] + far>>
        ELSE <<car.start[1] + far, car.start[2]>>

\* the number of empty cells in a row next to the car in direction dir (1 or
\* -1), up to the first cell of a car or the edge, k of them counted so far
RECURSIVE FreeRun(_, _, _, _)
FreeRun(cs, car, dir, k) ==
    LET cell == Beyond(car, dir * (k + 1))
    IN  IF OnBoard({cell}) /\ cell \notin AllCarCells(cs)
        THEN FreeRun(cs, car, dir, k + 1)
        ELSE k

\* the entries <<name, p, n>> of the cars of cs from the i-th on that have an
\* empty cell next to them, in the order of cs
RECURSIVE MovableFrom(_, _)
MovableFrom(cs, i) ==
    IF i > Len(cs) THEN <<>>
    ELSE LET p == FreeRun(cs, cs[i], 1, 0)
             n == FreeRun(cs, cs[i], 0 - 1, 0)
         IN  (IF p > 0 \/ n > 0 THEN << <<cs[i].name, p, n>> >> ELSE <<>>)
             \o MovableFrom(cs, i + 1)

\* C14: for every car _get_car_moves returns (p, n), p the number of empty
\* cells in a row right after the car's last cell and n the number right
\* before its anchor, along its axis, up to the first occupied cell or the
\* edge; _get_possible_moves lists exactly the cars with p > 0 or n > 0.
C14_MovesAreFreeRuns ==
    /\ \A i \in 1 .. Len(cars) :
          _get_car_moves(Game, cars[i].name) =
              <<FreeRun(cars, cars[i], 1, 0), FreeRun(cars, cars[i], 0 - 1, 0)>>
    /\ _get_possible_moves(Game) = MovableFrom(cars, 1)

\* C14 witness: in a state of a search one car has room on both sides, up to
\* another car on one of them, and a car without room is left out
C14_Witness ==
    /\ pc \in {"bfs", "a_star"}
    /\ nodes_visited > 0
    /\ \E i \in 1 .. Len(cars) :
          LET m == _get_car_moves(Game, cars[i].name)
          IN  /\ m[1] > 0 /\ m[2] > 0
              /\ Beyond(cars[i], m[1] + 1) \in AllCarCells(cars)
    /\ \E i \in 1 .. Len(cars) : _get_car_moves(Game, cars[i].name) = <<0, 0>>
    /\ Len(_get_possible_moves(Game)) < Len(cars)

\* the configurations in reach of the frontier by slides, with those seen
RECURSIVE ReachFrom(_, _)
ReachFrom(frontier, seen) ==
    IF frontier = {} THEN seen
    ELSE LET known == seen \cup frontier
         IN  ReachFrom((UNION {Slides(cs) : cs \in frontier}) \ known, known)

Reach(cs) == ReachFrom({cs}, {})

\* the Game whose cars stand as in cs
GameOf(cs) == [board |-> Paint(cs), cars |-> cs, error |-> "none"]

\* level holds the configurations at depth slides from the nearest solved one
\* (a slide can be taken back, so the distance is the same in both directions):
\* the heuristic of each is at most depth, on this level and on the next ones
RECURSIVE AdmissibleFrom(_, _, _)
AdmissibleFrom(level, seen, depth) ==
    IF level = {} THEN TRUE
    ELSE /\ \A cs \in level : heuristic(GameOf(cs)) <= depth
         /\ LET known == seen \cup level
            IN  AdmissibleFrom((UNION {Slides(cs) : cs \in level}) \ known,
                               known, depth + 1)

\* C15: for every configuration in reach of the initial one by slides that
\* has a solved configuration in reach, the heuristic is at most the least
\* number of slides to a solved configuration.
C15_Admissible ==
    pc = "a_star" /\ nodes_visited = 0 =>
        AdmissibleFrom({cs \in Reach(InitialCars) : Solved(cs)}, {}, 0)

\* C15 witness: a_star starts on a list with two obstacles that is two slides
\* from solved
C15_Witness ==
    /\ pc = "a_star"
    /\ nodes_visited = 0
    /\ heuristic(Game) = 2
    /\ MinSlides(InitialCars) = 2

\* C16: when both solvers return a move sequence, a_star has popped no more
\* entries than bfs.
C16_AStarPopsNoMore ==
    AStarDone /\ result.bfs.found /\ result.a_star.found =>
        result.a_star.nodes <= result.bfs.nodes

\* C16 witness: a_star returned after fewer pops than bfs, both after several
C16_Witness ==
    /\ AStarDone
    /\ result.bfs.found
    /\ result.a_star.found
    /\ result.a_star.nodes > 2
    /\ result.a_star.nodes < result.bfs.nodes

\* car b is car a somewhere along a's axis: the same name, orientation and
\* length, in the same row (horizontal) or column (vertical)
SameLane(a, b) ==
    /\ b.name = a.name
    /\ b.orientation = a.orientation
    /\ b.size = a.size
    /\ IF a.orientation = Orientation.H
       THEN b.start[1] = a.start[1]
       ELSE b.start[2] = a.start[2]

\* the grid b and the car map cs differ from the grid and the car map of the
\* state in the i-th car only, which stays in its lane
OnlyMoved(b, cs, i) ==
    /\ Len(cs) = Len(cars)
    /\ \A j \in 1 .. Len(cars) : j # i => cs[j] = cars[j]
    /\ SameLane(cars[i], cs[i])
    /\ \A cell \in OtherCells(cars, i) : At(b, cell) = At(board, cell)

\* C17: a move that _move_car accepts changes the moved car only, along its
\* axis: the other cars' entries and cells and the set of cars stay, the moved
\* car keeps orientation, length and row (column); move_sequence keeps every
\* car in its lane, and the target is horizontal in row 2 in every state.
C17_OnlyTheCarMoves ==
    /\ pc # "replayed" =>
          \A i \in 1 .. Len(cars) : \A d \in Increments :
              LET g1 == _move_car(Game, cars[i], d)
              IN  g1.error = "none" =>
                      /\ OnlyMoved(g1.board, g1.cars, i)
                      /\ g1.cars[i].start = Shifted(cars[i], d)
    /\ pc = "replayed" =>
          /\ Len(cars) = Len(last.cars)
          /\ \A j \in 1 .. Len(cars) : SameLane(last.cars[j], cars[j])
          /\ Len(last.moves) = 1 =>
                Cardinality({j \in 1 .. Len(cars) : cars[j] # last.cars[j]}) <= 1
    /\ LET x == CarOf(cars, CarName.X)
       IN  x.orientation = Orientation.H /\ x.start[1] = 2

\* C17 witness: move_sequence moved the target and another car, and the third
\* car of the list stayed
C17_Witness ==
    /\ pc = "replayed"
    /\ error = "none"
    /\ Len(cars) = 3
    /\ Cardinality({j \in 1 .. Len(cars) : cars[j] # last.cars[j]}) = 2
    /\ CarOf(cars, CarName.X) # CarOf(last.cars, CarName.X)

\* C18 as stated: a move that move_sequence accepts is a slide through empty
\* cells, within the range the enumerator reports for the car: no car passes
\* over another.
C18_AcceptedMovesAreSlides ==
    /\ pc = "replayed"
    /\ Len(last.moves) = 1
    /\ error = "none"
    /\ ~Absent(last.moves[1], last.cars)
    => LET name == CarName[Head(last.moves[1])]
           d == ParseInt(Tail(last.moves[1])).value
           k == CHOOSE k \in 1 .. Len(last.cars) : last.cars[k].name = name
           m == _get_car_moves([board |-> last.board, cars |-> last.cars,
                                error |-> "none"], name)
       IN  /\ CanSlide(last.cars, k, d)
           /\ 0 - m[2] <= d /\ d <= m[1]

\* the grid and the car map are those of the list replayed by moves
AsReplayed(moves) ==
    LET g == Replayed(moves)
    IN  board = g.board /\ cars = g.cars

\* C19: when bfs or a_star returns a move sequence, the grid and the car map
\* of the Game are those the sequence replayed from the initial list gives, a
\* solved state; the initial configuration is not put back.
C19_GameLeftSolved ==
    /\ BfsDone /\ result.bfs.found =>
          /\ AsReplayed(result.bfs.moves)
          /\ Solved(cars)
          /\ result.bfs.moves # <<>> => cars # InitialCars
    /\ AStarDone /\ result.a_star.found =>
          /\ AsReplayed(result.a_star.moves)
          /\ Solved(cars)
          /\ result.a_star.moves # <<>> => cars # InitialCars

\* C19 witness: bfs returned two moves and left the Game two cars away from
\* the initial list
C19_Witness ==
    /\ BfsDone
    /\ Len(result.bfs.moves) = 2
    /\ Cardinality({j \in 1 .. Len(cars) : cars[j] # InitialCars[j]}) = 2
    /\ AsReplayed(result.bfs.moves)

\* the state key has been popped with its best cost and its moves enumerated:
\* a cost is recorded for it and no entry of the heap carries that cost (every
\* recorded cost is pushed with an entry, which leaves the heap when popped)
Expanded(gc, h, key) ==
    /\ key \in DOMAIN gc
    /\ \A e \in h : e.board_tuple = key => e.cost > gc[key]

\* one iteration of a_star that stays in the loop, seen from the keys
\* expanded before it
ExpandStep ==
    pc = "a_star" /\ pc' = "a_star" =>
        /\ \A key \in DOMAIN g_costs :
              Expanded(g_costs, heap, key) =>
                  /\ key \in DOMAIN g_costs'
                  /\ g_costs'[key] = g_costs[key]
                  /\ Expanded(g_costs', heap', key)
        /\ \A e \in heap \ heap' :
              Expanded(g_costs, heap, e.board_tuple) =>
                  /\ heap' = heap \ {e}
                  /\ g_costs' = g_costs
                  /\ board' = board /\ cars' = cars

\* C20: in a run of a_star a state key that has been expanded stays expanded:
\* its recorded cost does not change, every later entry of the key that is
\* popped is discarded without a change, and no key is expanded twice.
C20_ExpandedOnce == [][ExpandStep]_vars

\* C20 witness: a_star has expanded two keys and holds an entry of an expanded
\* key, to be discarded when popped
C20_Witness ==
    /\ pc = "a_star"
    /\ Cardinality({key \in DOMAIN g_costs : Expanded(g_costs, heap, key)}) >= 2
    /\ \E e \in heap : Expanded(g_costs, heap, e.board_tuple)

\* the entries of the heap are told apart by (f, cost, board_tuple)
HeapDecided(h) ==
    \A a, b \in h : a # b => EntryLess(a, b) \/ EntryLess(b, a)

\* one step of a_star as to what it pushes: every new entry carries a cost
\* below the one recorded for its key, which becomes the recorded one; no two
\* new entries are of one key; a recorded cost changes only by such a push
PushStep ==
    pc = "a_star" /\ pc' = "a_star" =>
        /\ \A e \in heap' \ heap :
              /\ e.board_tuple \in DOMAIN g_costs =>
                     e.cost < g_costs[e.board_tuple]
              /\ e.board_tuple \in DOMAIN g_costs'
              /\ g_costs'[e.board_tuple] = e.cost
              /\ \A o \in heap' \ heap : o.board_tuple = e.board_tuple => o = e
              /\ \A o \in heap : o.board_tuple = e.board_tuple => o.cost > e.cost
        /\ \A key \in DOMAIN g_costs :
              /\ key \in DOMAIN g_costs'
              /\ g_costs'[key] # g_costs[key] =>
                     \E e \in heap' \ heap : e.board_tuple = key

\* C21: no two entries a_star pushes share (board_tuple, cost): the costs
\* pushed for one key decrease strictly, so any two entries of the heap are
\* ordered by (f, cost, board_tuple) and the comparison goes no further.
C21_PushesDistinct ==
    /\ [][PushStep]_vars
    /\ [](pc = "a_star" =>
            /\ HeapDecided(heap)
            /\ \A e \in heap : /\ e.board_tuple \in DOMAIN g_costs
                                /\ e.cost >= g_costs[e.board_tuple])

\* C21 witness: the heap holds two entries of one key, the later one of lower
\* cost, and two entries of equal f and cost that the key tells apart
C21_Witness ==
    /\ pc = "a_star"
    /\ \E a, b \in heap :
          a.board_tuple = b.board_tuple /\ a.cost < b.cost
    /\ \E a, b \in heap :
          a.f = b.f /\ a.cost = b.cost /\ a.board_tuple # b.board_tuple

=============================================================================
